---- MODULE Spec2Model ----
(***************************************************************************)
(* Model of Yt_agent.py: the helper extract_video_id (a pure function over *)
(* URL strings) and the Streamlit script that gates the three agents on    *)
(* its result.                                                             *)
(*                                                                         *)
(* A Python str is modelled as a sequence of one-character strings, so     *)
(* that find/split/partition/startswith act on characters as they do in    *)
(* Python.  Indices are 1-based here; find returns 0 where Python's        *)
(* str.find returns -1.                                                    *)
(***************************************************************************)
EXTENDS Integers, Sequences, FiniteSets, TLC

\* ------------------------------------------------------------------------
\* Bounds of the input space
\* ------------------------------------------------------------------------
\* largest number of leading '/' put in front of a generated path
MaxSlashes == 2
\* largest number of 'v=' fields put in a generated query string
MaxVFields == 2

\* ------------------------------------------------------------------------
\* Characters
\* ------------------------------------------------------------------------
LOWER == <<"a","b","c","d","e","f","g","h","i","j","k","l","m",
           "n","o","p","q","r","s","t","u","v","w","x","y","z">>
UPPER == <<"A","B","C","D","E","F","G","H","I","J","K","L","M",
           "N","O","P","Q","R","S","T","U","V","W","X","Y","Z">>
DIGITS == <<"0","1","2","3","4","5","6","7","8","9">>
\* printable ASCII, code points 32..126, in order ("GRAVE" stands for the
\* grave accent, code point 96)
PRINTABLE == <<" ","!","\"","#","$","%","&","'","(",")","*","+",",","-",".","/",
               "0","1","2","3","4","5","6","7","8","9",":",";","<","=",">","?",
               "@","A","B","C","D","E","F","G","H","I","J","K","L","M","N","O",
               "P","Q","R","S","T","U","V","W","X","Y","Z","[","\\","]","^","_",
               "GRAVE","a","b","c","d","e","f","g","h","i","j","k","l","m","n","o",
               "p","q","r","s","t","u","v","w","x","y","z","{","|","}","~">>

Range(s) == { s[i] : i \in 1..Len(s) }

\* str.isascii() for one character; "\t", "\n", "\r" are the control
\* characters the inputs use, every other element (such as "U+2100") stands
\* for one non-ASCII code point
isascii(c) == c \in Range(PRINTABLE) \cup {"\t", "\n", "\r"}

\* str.isalpha() restricted to ASCII (it is only used together with isascii)
isalpha(c) == c \in Range(LOWER) \cup Range(UPPER)

\* urllib.parse.scheme_chars
scheme_chars == Range(LOWER) \cup Range(UPPER) \cup Range(DIGITS) \cup {"+", "-", "."}

\* urllib.parse._WHATWG_C0_CONTROL_OR_SPACE, the members the inputs can hold
WHATWG_C0_CONTROL_OR_SPACE == {" ", "\t", "\n", "\r"}

\* urllib.parse._UNSAFE_URL_BYTES_TO_REMOVE
UNSAFE_URL_BYTES_TO_REMOVE == {"\t", "\r", "\n"}

\* ------------------------------------------------------------------------
\* str methods
\* ------------------------------------------------------------------------
\* s[i:] with a 1-based i
From(s, i) == SubSeq(s, i, Len(s))

\* s.find(c, start): least index >= start holding c, 0 when there is none
find(s, c, start) ==
  IF \E i \in start..Len(s) : s[i] = c
  THEN CHOOSE i \in start..Len(s) : s[i] = c /\ \A j \in start..(i-1) : s[j] # c
  ELSE 0

\* s.rfind(c): greatest index holding c, 0 when there is none
rfind(s, c) ==
  IF \E i \in 1..Len(s) : s[i] = c
  THEN CHOOSE i \in 1..Len(s) : s[i] = c /\ \A j \in (i+1)..Len(s) : s[j] # c
  ELSE 0

\* c in s
contains(s, c) == \E i \in 1..Len(s) : s[i] = c

startswith(s, p) == Len(p) <= Len(s) /\ SubSeq(s, 1, Len(p)) = p

endswith(s, p) == Len(p) <= Len(s) /\ SubSeq(s, Len(s) - Len(p) + 1, Len(s)) = p

\* one character of str.lower()
lower_char(c) ==
  IF \E i \in 1..26 : UPPER[i] = c
  THEN LOWER[CHOOSE i \in 1..26 : UPPER[i] = c]
  ELSE c

\* s.lower()
lower(s) == [i \in 1..Len(s) |-> lower_char(s[i])]

\* s.lstrip(chars): every leading character that is in chars is removed
lstrip(s, chars) ==
  IF \E i \in 1..Len(s) : s[i] \notin chars
  THEN From(s, CHOOSE i \in 1..Len(s) : s[i] \notin chars /\ \A j \in 1..(i-1) : s[j] \in chars)
  ELSE <<>>

\* s.replace(b, "") for every b in chars
remove_chars(s, chars) == SelectSeq(s, LAMBDA c : c \notin chars)

\* s.split(c, 1): <<s>> when c is absent, else <<before, after>>
split1(s, c) ==
  LET i == find(s, c, 1)
  IN IF i = 0 THEN <<s>> ELSE <<SubSeq(s, 1, i-1), From(s, i+1)>>

\* s.split(c): all the segments between occurrences of c
RECURSIVE split(_, _)
split(s, c) ==
  LET i == find(s, c, 1)
  IN IF i = 0 THEN <<s>> ELSE <<SubSeq(s, 1, i-1)>> \o split(From(s, i+1), c)

\* s.partition(c): <<head, sep, tail>>
partition(s, c) ==
  LET i == find(s, c, 1)
  IN IF i = 0 THEN <<s, <<>>, <<>>>> ELSE <<SubSeq(s, 1, i-1), <<c>>, From(s, i+1)>>

\* s.rpartition(c): <<head, sep, tail>>
rpartition(s, c) ==
  LET i == rfind(s, c)
  IN IF i = 0 THEN <<<<>>, <<>>, s>> ELSE <<SubSeq(s, 1, i-1), <<c>>, From(s, i+1)>>

\* ------------------------------------------------------------------------
\* urllib.parse, as far as line 2 imports it
\* ------------------------------------------------------------------------
HEXDIGITS == <<"0","1","2","3","4","5","6","7","8","9","a","b","c","d","e","f">>

ishex(c) == lower_char(c) \in Range(HEXDIGITS)

\* int(c, 16) for one hexadecimal digit
hexval(c) == (CHOOSE i \in 1..16 : HEXDIGITS[i] = lower_char(c)) - 1

\* the character a decoded byte stands for under utf-8 with errors='replace':
\* an ASCII byte is its character, a byte that is not valid utf-8 on its own
\* becomes U+FFFD; the control characters other than tab, newline and
\* carriage return share the element "CTRL"
chr(n) ==
  IF n >= 32 /\ n <= 126 THEN PRINTABLE[n - 31]
  ELSE IF n = 9 THEN "\t"
  ELSE IF n = 10 THEN "\n"
  ELSE IF n = 13 THEN "\r"
  ELSE IF n < 128 THEN "CTRL"
  ELSE "U+FFFD"

\* urllib.parse.unquote: %XX with two hexadecimal digits is decoded, a '%'
\* that is not followed by two hexadecimal digits is kept as it is
RECURSIVE unquote(_)
unquote(s) ==
  IF s = <<>> THEN <<>>
  ELSE IF s[1] = "%" /\ Len(s) >= 3 /\ ishex(s[2]) /\ ishex(s[3])
       THEN <<chr(16 * hexval(s[2]) + hexval(s[3]))>> \o unquote(From(s, 4))
       ELSE <<s[1]>> \o unquote(From(s, 2))

\* s.replace('+', ' ')
plus_to_space(s) == [i \in 1..Len(s) |-> IF s[i] = "+" THEN " " ELSE s[i]]

\* urllib.parse.parse_qsl with its defaults (keep_blank_values=False,
\* strict_parsing=False, separator='&'): the decoded <<name, value>> pairs in
\* order; a field without '=' and a field with an empty value are dropped
RECURSIVE parse_qsl_fields(_)
parse_qsl_fields(query_args) ==
  IF query_args = <<>> THEN <<>>
  ELSE LET nv   == split1(query_args[1], "=")
           rest == parse_qsl_fields(Tail(query_args))
       IN IF Len(nv) # 2 THEN rest
          ELSE IF Len(nv[2]) > 0
               THEN << <<unquote(plus_to_space(nv[1])), unquote(plus_to_space(nv[2]))>> >> \o rest
               ELSE rest

parse_qsl(qs) == IF qs = <<>> THEN <<>> ELSE parse_qsl_fields(split(qs, "&"))

\* urllib.parse.parse_qs(qs)[name] as a sequence of values; the empty
\* sequence stands for 'name is not a key of the dict'
parse_qs(qs, name) ==
  LET pairs == SelectSeq(parse_qsl(qs), LAMBDA p : p[1] = name)
  IN [i \in 1..Len(pairs) |-> pairs[i][2]]

\* urllib.parse.uses_params
uses_params == { <<>>, <<"f","t","p">>, <<"h","d","l">>,
                 <<"p","r","o","s","p","e","r","o">>, <<"h","t","t","p">>,
                 <<"i","m","a","p">>, <<"h","t","t","p","s">>,
                 <<"s","h","t","t","p">>, <<"r","t","s","p">>,
                 <<"r","t","s","p","u">>, <<"s","i","p">>, <<"s","i","p","s">>,
                 <<"m","m","s">>, <<"s","f","t","p">>, <<"t","e","l">> }

\* urllib.parse._splitnetloc(url, 2): <<netloc, rest>>, the netloc ends at
\* the first of '/', '?', '#' after the leading '//'
splitnetloc(url) ==
  LET ds    == { find(url, c, 3) : c \in {"/", "?", "#"} } \ {0}
      delim == IF ds = {} THEN Len(url) + 1
               ELSE CHOOSE d \in ds : \A e \in ds : d <= e
  IN <<SubSeq(url, 3, delim - 1), From(url, delim)>>

\* urllib.parse._check_bracketed_host: TRUE when it raises ValueError.  The
\* IPvFuture form is v<hex>+.<any>+; anything else goes to
\* ipaddress.ip_address, taken here to accept exactly the non-empty strings
\* of hexadecimal digits and ':' with at least two ':' (IPv6 literals), an
\* IPv4 address in brackets being rejected as well
check_bracketed_host_raises(hostname) ==
  IF startswith(hostname, <<"v">>)
  THEN LET dot == find(hostname, ".", 1)
       IN ~ ( /\ dot > 2
              /\ \A k \in 2..(dot - 1) : ishex(hostname[k])
              /\ dot < Len(hostname) )
  ELSE ~ ( /\ \A k \in 1..Len(hostname) : ishex(hostname[k]) \/ hostname[k] = ":"
           /\ Cardinality({ k \in 1..Len(hostname) : hostname[k] = ":" }) >= 2 )

\* unicodedata.normalize('NFKC', n), one character at a time: U+2100
\* (ACCOUNT OF) expands to 'a/c'; every other character the inputs use is
\* its own normal form
RECURSIVE nfkc(_)
nfkc(n) ==
  IF n = <<>> THEN <<>>
  ELSE (IF n[1] = "U+2100" THEN <<"a", "/", "c">> ELSE <<n[1]>>) \o nfkc(Tail(n))

\* urllib.parse._checknetloc: TRUE when it raises ValueError
checknetloc_raises(netloc) ==
  IF netloc = <<>> \/ \A k \in 1..Len(netloc) : isascii(netloc[k]) THEN FALSE
  ELSE LET n       == remove_chars(netloc, {"@", ":", "#", "?"})
           netloc2 == nfkc(n)
       IN n # netloc2 /\ \E c \in {"/", "?", "#", "@", ":"} : contains(netloc2, c)

\* the value of a call that raised ValueError
ParseError ==
  [exc |-> "ValueError", scheme |-> <<>>, netloc |-> <<>>, path |-> <<>>,
   params |-> <<>>, query |-> <<>>, fragment |-> <<>>]

\* urllib.parse.urlsplit is written as a chain of steps, each handing the
\* values computed so far to the next one.
\*
\* last step: _checknetloc, then the SplitResult (params left empty); qu is
\* url.split('?', 1)
split_result(scheme, netloc, qu, fragment) ==
  IF checknetloc_raises(netloc) THEN ParseError
  ELSE [exc |-> "", scheme |-> scheme, netloc |-> netloc, path |-> qu[1],
        params |-> <<>>, query |-> IF Len(qu) = 2 THEN qu[2] ELSE <<>>,
        fragment |-> fragment]

\* 'if "?" in url: url, query = url.split("?", 1)'; fr is url.split('#', 1)
split_query(scheme, netloc, fr) ==
  split_result(scheme, netloc, split1(fr[1], "?"),
               IF Len(fr) = 2 THEN fr[2] ELSE <<>>)

\* 'if "#" in url: url, fragment = url.split("#", 1)'
split_fragment(scheme, netloc, url3) == split_query(scheme, netloc, split1(url3, "#"))

\* the bracket checks on the netloc; nr is _splitnetloc(url, 2)
split_brackets(scheme, nr) ==
  IF contains(nr[1], "[") # contains(nr[1], "]") THEN ParseError
  ELSE IF /\ contains(nr[1], "[") /\ contains(nr[1], "]")
          /\ check_bracketed_host_raises(partition(partition(nr[1], "[")[3], "]")[1])
       THEN ParseError
  ELSE split_fragment(scheme, nr[1], nr[2])

\* 'if url[:2] == "//"'
split_authority(scheme, url2) ==
  IF startswith(url2, <<"/", "/">>) THEN split_brackets(scheme, splitnetloc(url2))
  ELSE split_fragment(scheme, <<>>, url2)

\* the scheme test; i is url.find(':')
split_scheme(url1, i) ==
  IF /\ i > 1
     /\ isascii(url1[1]) /\ isalpha(url1[1])
     /\ \A k \in 1..(i - 1) : url1[k] \in scheme_chars
  THEN split_authority(lower(SubSeq(url1, 1, i - 1)), From(url1, i + 1))
  ELSE split_authority(<<>>, url1)

\* url1 is the url after lstrip and the removal of tab, CR and LF
split_stripped(url1) == split_scheme(url1, find(url1, ":", 1))

\* urllib.parse.urlsplit(url)
urlsplit(url0) ==
  split_stripped(remove_chars(lstrip(url0, WHATWG_C0_CONTROL_OR_SPACE),
                              UNSAFE_URL_BYTES_TO_REMOVE))

\* urllib.parse._splitparams(url): <<path, params>>, the params are split
\* off the last path segment only
splitparams(url) ==
  LET i == IF contains(url, "/") THEN find(url, ";", rfind(url, "/"))
           ELSE find(url, ";", 1)
  IN IF i = 0 THEN <<url, <<>>>> ELSE <<SubSeq(url, 1, i - 1), From(url, i + 1)>>

\* the params are split off the path of a SplitResult r when the scheme
\* uses params
with_params(r) ==
  IF r.exc # "" THEN r
  ELSE IF r.scheme \in uses_params /\ contains(r.path, ";")
       THEN [r EXCEPT !.path = splitparams(r.path)[1], !.params = splitparams(r.path)[2]]
       ELSE r

\* urllib.parse.urlparse(url): the ParseResult
urlparse(url) == with_params(urlsplit(url))

\* ParseResult.hostname: the netloc without userinfo and port, lower-cased
\* up to a zone separator '%'; the empty sequence stands for None
hostname(parsed) ==
  LET hostinfo == rpartition(parsed.netloc, "@")[3]
      br       == partition(hostinfo, "[")
      host     == IF br[2] # <<>> THEN partition(br[3], "]")[1]
                  ELSE partition(hostinfo, ":")[1]
      z        == partition(host, "%")
  IN lower(z[1]) \o z[2] \o z[3]

\* ------------------------------------------------------------------------
\* extract_video_id (Yt_agent.py, lines 33-45)
\* ------------------------------------------------------------------------
\* The value of a call: a str, None, or the exception that escaped it
Str(s) == [kind |-> "str", val |-> s]
None == [kind |-> "None", val |-> <<>>]
Raised(e) == [kind |-> e, val |-> <<>>]
NotCalled == [kind |-> "NotCalled", val |-> <<>>]

YOUTU_BE == <<"y","o","u","t","u",".","b","e">>
YOUTUBE_COM == <<"y","o","u","t","u","b","e",".","c","o","m">>
WATCH == <<"/","w","a","t","c","h">>
SEGS == <<<<"/","e","m","b","e","d","/">>, <<"/","s","h","o","r","t","s","/">>, <<"/","l","i","v","e","/">>>>
V == <<"v">>

\* line 37: host == "youtu.be"
is_short_host(host) == host = YOUTU_BE

\* line 39: host.endswith("youtube.com")
is_youtube_host(host) == endswith(host, YOUTUBE_COM)

\* line 38 as it would read with removeprefix("/"): one slash is removed
short_link_id_single(path) ==
  Str(IF startswith(path, <<"/">>) THEN Tail(path) ELSE path)

\* line 38 as it would read with 'or None' appended: an empty path is absent
short_link_id_or_none(path) ==
  IF lstrip(path, {"/"}) = <<>> THEN None ELSE Str(lstrip(path, {"/"}))

\* line 38: parsed.path.lstrip("/")
short_link_id(path) == Str(lstrip(path, {"/"}))

\* line 40 as it would read with startswith("/watch")
is_watch_prefix(path) == startswith(path, WATCH)

\* line 40: parsed.path == "/watch"
is_watch(path) == path = WATCH

\* line 41 as it would read with index -1: the last value of v
watch_v_last(query) ==
  LET vs == parse_qs(query, V)
  IN IF vs = <<>> THEN None ELSE Str(vs[Len(vs)])

\* line 41: parse_qs(parsed.query).get("v", [None])[0]
watch_v(query) ==
  LET vs == parse_qs(query, V)
  IN IF vs = <<>> THEN None ELSE Str(vs[1])

\* lines 42-43 as they would read with the prefixes "/embed", "/shorts",
\* "/live", the trailing slash left out
has_seg_prefix_noslash(path) ==
  \E k \in 1..Len(SEGS) : startswith(path, SubSeq(SEGS[k], 1, Len(SEGS[k]) - 1))

\* lines 42-43: the path starts with one of the three segment prefixes
has_seg_prefix(path) == \E k \in 1..Len(SEGS) : startswith(path, SEGS[k])

\* line 44: parsed.path.split("/")[2]; an index past the end raises
path_segment(path) ==
  LET parts == split(path, "/")
  IN IF Len(parts) < 3 THEN Raised("IndexError") ELSE Str(parts[3])

\* lines 37-45, with parsed and host as lines 35-36 computed them
extract_by_host(parsed, host) ==
  IF is_short_host(host) THEN short_link_id(parsed.path)
  ELSE IF is_youtube_host(host)
       THEN IF is_watch(parsed.path) THEN watch_v(parsed.query)
            ELSE IF has_seg_prefix(parsed.path) THEN path_segment(parsed.path)
            ELSE None
  ELSE None

\* line 36 onwards; an exception of line 35 escapes the function
extract_parsed(parsed) ==
  IF parsed.exc # "" THEN Raised(parsed.exc)
  ELSE extract_by_host(parsed, hostname(parsed))

extract_video_id(url) == extract_parsed(urlparse(url))

\* ------------------------------------------------------------------------
\* Input strings
\* ------------------------------------------------------------------------
\* the concatenation of a sequence of strings
RECURSIVE concat(_)
concat(ss) == IF ss = <<>> THEN <<>> ELSE ss[1] \o concat(Tail(ss))

\* n times the character c
repeat(c, n) == [i \in 1..n |-> c]

\* what precedes the authority: a scheme with '//', a bare '//', nothing
Prefixes ==
  { <<"h","t","t","p","s",":","/","/">>,
    <<"/","/">>,
    <<>> }

\* authorities: the two domains, subdomains, userinfo and port, other
\* registered domains, an empty one, and malformed ones
Authorities ==
  { <<"y","o","u","t","u",".","b","e">>,
    <<"Y","O","U","T","U",".","B","E">>,
    <<"u","s","e","r","@","y","o","u","t","u",".","b","e">>,
    <<"y","o","u","t","u","b","e",".","c","o","m">>,
    <<"w","w","w",".","y","o","u","t","u","b","e",".","c","o","m">>,
    <<"m",".","y","o","u","t","u","b","e",".","c","o","m",":","4","4","3">>,
    <<"n","o","t","y","o","u","t","u","b","e",".","c","o","m">>,
    <<"y","o","u","t","u","b","e",".","c","o","m",".","e","v","i","l",".","i","o">>,
    <<"e","x","a","m","p","l","e",".","c","o","m">>,
    <<>>,
    <<"[","y","o","u","t","u","b","e",".","c","o","m">>,
    <<"[",":",":","1","]">>,
    <<"y","o","u","t","u","b","e",".","c","o","m","U+2100">> }

\* what follows the leading slashes of a path
PathTails ==
  { <<>>,
    <<"I","D">>,
    <<"I","D",";","p">>,
    <<"w","a","t","c","h">>,
    <<"w","a","t","c","h","/">>,
    <<"w","a","t","c","h",";","p">>,
    <<"e","m","b","e","d">>,
    <<"e","m","b","e","d","/">>,
    <<"e","m","b","e","d","/","I","D">>,
    <<"e","m","b","e","d","/","I","D","/","x">>,
    <<"s","h","o","r","t","s","/","I","D">>,
    <<"l","i","v","e","/","I","D">>,
    <<"v","/","I","D">>,
    <<"U+00E9">> }

\* paths: empty, or 1..MaxSlashes leading '/' and a tail
Paths == {<<>>} \cup { repeat("/", n) \o t : n \in 1..MaxSlashes, t \in PathTails }

\* query fields that carry the key v: two values and a blank value
VFields ==
  { <<"v","=","A">>,
    <<"v","=","B">>,
    <<"v","=">> }

\* sequences of 0..MaxVFields fields of VFields joined by '&'
RECURSIVE VQueries(_)
VQueries(n) ==
  IF n = 0 THEN {<<>>}
  ELSE VQueries(n - 1) \cup
       { IF q = <<>> THEN f ELSE q \o <<"&">> \o f : q \in VQueries(n - 1), f \in VFields }

\* queries without a plain v=value field: no v, v without '=', an encoded
\* key, malformed and well-formed percent-encoding, an upper-case key
OtherQueries ==
  { <<"l","i","s","t","=","P","L">>,
    <<"v">>,
    <<"%","7","6","=","A">>,
    <<"v","=","%","z","z">>,
    <<"v","=","a","%","4","1","+","b">>,
    <<"V","=","A">> }

\* query strings, without the leading '?': v fields alone, with another
\* parameter before or after them, and the queries of OtherQueries
Queries ==
  VQueries(MaxVFields)
    \cup { q \o <<"&","t","=","3","0","s">> : q \in VQueries(MaxVFields) \ {<<>>} }
    \cup { <<"t","=","3","0","s","&">> \o q : q \in VQueries(MaxVFields) \ {<<>>} }
    \cup OtherQueries

\* fragments, with the leading '#'
Fragments ==
  { <<>>,
    <<"#","v","=","F">> }

\* strings outside the generated shape: empty, leading space, an embedded
\* tab, unbalanced brackets, malformed percent-encoding, no scheme
RawStrings ==
  { <<>>,
    <<" ","h","t","t","p","s",":","/","/","y","o","u","t","u",".","b","e","/","I","D">>,
    <<"h","t","t","p","s",":","/","/","y","o","u","t","u",".","b","e","/","I","\t","D">>,
    <<"h","t","t","p",":","/","/","[">>,
    <<"y","o","u","t","u",".","b","e","]">>,
    <<"%","z","z">>,
    <<"w","w","w",".","y","o","u","t","u","b","e",".","c","o","m",":","8","0","/","w","a","t","c","h","?","v","=","I","D">>,
    <<"h","t","t","p","s",":","/","/","y","o","u","t","u",".","b","e","]","/","I","D">> }

\* the URL with the given parts
build(prefix, authority, path, query, fragment) ==
  prefix \o authority \o path \o (IF query = <<>> THEN <<>> ELSE <<"?">> \o query) \o fragment

\* the paths and queries combined with every prefix and fragment
CorePaths ==
  { <<>>,
    <<"/">>,
    <<"/","I","D">>,
    <<"/","w","a","t","c","h">>,
    <<"/","e","m","b","e","d","/","I","D">> }
CoreQueries ==
  { <<>>,
    <<"v","=","A">>,
    <<"l","i","s","t","=","P","L">> }

\* every input string of the model: the strings of RawStrings, every
\* authority, path and query under https://, and the core paths and queries
\* under every prefix and fragment
URLS ==
  RawStrings
    \cup { build(<<"h","t","t","p","s",":","/","/">>, a, path, q, <<>>) :
             a \in Authorities, path \in Paths, q \in Queries }
    \cup { build(p, a, path, q, f) :
             p \in Prefixes, a \in Authorities, path \in CorePaths,
             q \in CoreQueries, f \in Fragments }

\* ------------------------------------------------------------------------
\* The Streamlit script (Yt_agent.py, lines 11-30 and 112-161)
\* ------------------------------------------------------------------------
\* the strings typed into the text input: the empty one and URLs over a few
\* authorities, paths and queries
ScriptAuthorities ==
  { <<"y","o","u","t","u",".","b","e">>,
    <<"w","w","w",".","y","o","u","t","u","b","e",".","c","o","m">>,
    <<"n","o","t","y","o","u","t","u","b","e",".","c","o","m">>,
    <<"e","x","a","m","p","l","e",".","c","o","m">>,
    <<"[","y","o","u","t","u","b","e",".","c","o","m">> }
ScriptPaths ==
  { <<"/">>,
    <<"/","I","D">>,
    <<"/","w","a","t","c","h">>,
    <<"/","e","m","b","e","d","/","I","D">> }
ScriptQueries ==
  { <<>>,
    <<"v","=","A">> }

ScriptURLS ==
  {<<>>} \cup { build(<<"h","t","t","p","s",":","/","/">>, a, path, q, <<>>) :
                  a \in ScriptAuthorities, path \in ScriptPaths, q \in ScriptQueries }

\* the three buttons (keys of lines 125, 138, 151) and "none"
Buttons == {"summary_btn", "notes_btn", "questions_btn"}

\* what agent.run can do: a response with content, a response that reports
\* missing captions, an exception
Outcomes == {"content", "no_captions", "exception"}

\* the literal text of the three prompts (lines 128, 141, 154), each held as
\* one element in front of the characters of the URL
prompt_text(agent) ==
  IF agent = "summary_agent"
    THEN "Please summarize the key points from this YouTube video: "
  ELSE IF agent = "notes_agent"
    THEN "Create detailed, hierarchical study notes from this video: "
  ELSE "Generate MCQs and descriptive questions from this video: "

\* lines 128, 141, 154 as they would read interpolating video_id
make_prompt_from_id(agent, url_, id_) == <<prompt_text(agent)>> \o id_.val

\* lines 128, 141, 154: the f-string interpolates video_url
make_prompt(agent, url_, id_) == <<prompt_text(agent)>> \o url_

\* line 117 as it would read with 'video_id is None'
is_not_none(id_) == id_.kind = "str"

\* line 117: 'not video_id' is false exactly for a non-empty str
truthy(id_) == id_.kind = "str" /\ id_.val # <<>>

\* the agent behind each button
agent_of(b) ==
  IF b = "summary_btn" THEN "summary_agent"
  ELSE IF b = "notes_btn" THEN "notes_agent"
  ELSE "qa_agent"

\* lines 130-135 (and 143-148, 156-161): what is rendered after agent.run
rendered_for(outcome) ==
  IF outcome = "exception" THEN "error_exception"
  ELSE IF outcome = "no_captions" THEN "error_captions"
  ELSE "markdown"

VARIABLES
  url,          \* harness: the argument of extract_video_id
  result,       \* harness: what the call returned, NotCalled before it
  API_KEY,      \* line 13: whether GEMINI_API_KEY is set
  video_url,    \* line 113: the content of the text input in the last run
  video_id,     \* line 116: extract_video_id(video_url) in the last run
  pressed,      \* the button whose click started the last run, or "none"
  shown,        \* the elements the last run rendered
  agent_calls   \* the agent.run calls of the last run: <<agent, prompt>> records

vars == <<url, result, API_KEY, video_url, video_id, pressed, shown, agent_calls>>

harness_vars == <<url, result>>
script_vars == <<API_KEY, video_url, video_id, pressed, shown, agent_calls>>

\* Lines 115-161 with id the value of video_id: the text input holds u,
\* button b is clicked ("none" for no click) and agent.run behaves as outcome
ScriptBody(u, b, outcome, id) ==
  /\ video_url' = u
  /\ pressed' = b
  /\ video_id' = id
  /\ IF u = <<>>
     THEN \* line 115: nothing below the text input
          /\ shown' = {"text_input"}
          /\ agent_calls' = <<>>
     ELSE IF id.kind \notin {"str", "None"}
     THEN \* line 116 raised: the run ends with the exception
          /\ shown' = {"text_input", "exception"}
          /\ agent_calls' = <<>>
     ELSE IF ~truthy(id)
     THEN \* line 118
          /\ shown' = {"text_input", "error_invalid"}
          /\ agent_calls' = <<>>
     ELSE \* lines 120-161
          /\ shown' = {"text_input", "success", "tabs"} \cup Buttons
                        \cup (IF b = "none" THEN {} ELSE {rendered_for(outcome)})
          /\ agent_calls' =
               IF b = "none" THEN <<>>
               ELSE << [agent |-> agent_of(b),
                        prompt |-> make_prompt(agent_of(b), u, id)] >>
  /\ UNCHANGED <<API_KEY, harness_vars>>

\* One execution of the script from top to bottom (the key is set, or the
\* run would have stopped at line 17)
ScriptRun(u, b, outcome) ==
  ScriptBody(u, b, outcome, IF u = <<>> THEN NotCalled ELSE extract_video_id(u))

\* The first run of the script: without the key it stops at line 17, before
\* the text input exists
Init ==
  /\ url = <<>>
  /\ result = NotCalled
  /\ API_KEY \in BOOLEAN
  /\ video_url = <<>>
  /\ video_id = NotCalled
  /\ pressed = "none"
  /\ shown = IF API_KEY THEN {"text_input"} ELSE {"error_api_key"}
  /\ agent_calls = <<>>

\* The user commits a new content of the text input: a rerun with no button
EnterUrl ==
  /\ "text_input" \in shown
  /\ \E u \in ScriptURLS : u # video_url /\ ScriptRun(u, "none", "content")

\* The user clicks a button the last run rendered: a rerun in which that
\* button is true and the text input holds what it holds at that moment
Click(b) ==
  /\ b \in shown
  /\ \E u \in ScriptURLS, outcome \in Outcomes : ScriptRun(u, b, outcome)

ClickSummary == Click("summary_btn")
ClickNotes == Click("notes_btn")
ClickQuestions == Click("questions_btn")

Next == EnterUrl \/ ClickSummary \/ ClickNotes \/ ClickQuestions

Spec == Init /\ [][Next]_vars

\* ------------------------------------------------------------------------
\* extract_video_id applied to every input string
\* ------------------------------------------------------------------------
InitFn ==
  /\ url \in URLS
  /\ result = NotCalled
  /\ API_KEY = TRUE
  /\ video_url = <<>>
  /\ video_id = NotCalled
  /\ pressed = "none"
  /\ shown = {"text_input"}
  /\ agent_calls = <<>>

Call ==
  /\ result = NotCalled
  /\ result' = extract_video_id(url)
  /\ UNCHANGED <<url, script_vars>>

NextFn == Call

SpecFn == InitFn /\ [][NextFn]_vars

\* ------------------------------------------------------------------------
\* Properties of extract_video_id (specification SpecFn)
\* ------------------------------------------------------------------------
Called == result.kind # "NotCalled"
Parsed == urlparse(url)
ParsedOk == Parsed.exc = ""
Host == hostname(Parsed)

\* the host is youtube.com or <label>.youtube.com
OnYoutube == Host = YOUTUBE_COM \/ endswith(Host, <<".">> \o YOUTUBE_COM)

\* the path begins with /embed/, /shorts/ or /live/
UnderSegment ==
  \/ startswith(Parsed.path, <<"/","e","m","b","e","d","/">>)
  \/ startswith(Parsed.path, <<"/","s","h","o","r","t","s","/">>)
  \/ startswith(Parsed.path, <<"/","l","i","v","e","/">>)

\* the fields of the query string, and the decoded name and value of one
QueryFields == IF Parsed.query = <<>> THEN <<>> ELSE split(Parsed.query, "&")
FieldName(f) == unquote(plus_to_space(partition(f, "=")[1]))
FieldValue(f) == unquote(plus_to_space(partition(f, "=")[3]))

\* the positions of the key=value fields named v, and of those among them
\* with a non-empty value
VFieldsAt ==
  { i \in 1..Len(QueryFields) :
      contains(QueryFields[i], "=") /\ FieldName(QueryFields[i]) = V }
VValuesAt == { i \in VFieldsAt : FieldValue(QueryFields[i]) # <<>> }
Least(S) == CHOOSE i \in S : \A j \in S : i <= j

\* C1: extract_video_id never raises: every call returns a str or None.
C1_NeverRaises == result.kind \in {"NotCalled", "str", "None"}

\* C2 as stated: for host youtu.be the result is the path with exactly one
\* leading '/' removed.
C2_SingleSlashRemoved ==
  (Called /\ ParsedOk /\ Host = YOUTU_BE) =>
     result = Str(IF startswith(Parsed.path, <<"/">>) THEN Tail(Parsed.path)
                  ELSE Parsed.path)

\* C2 amended: for host youtu.be the result is the path with all of its
\* leading '/' removed, and holds nothing of the query string or fragment.
C2_AllSlashesRemoved ==
  (Called /\ ParsedOk /\ Host = YOUTU_BE) =>
     /\ result.kind = "str"
     /\ \E n \in 0..Len(Parsed.path) : Parsed.path = repeat("/", n) \o result.val
     /\ (result.val # <<>> => result.val[1] # "/")
     /\ ~contains(result.val, "?") /\ ~contains(result.val, "#")

C2_Witness ==
  /\ Called /\ ParsedOk /\ Host = YOUTU_BE
  /\ startswith(Parsed.path, <<"/", "/">>)
  /\ Parsed.query # <<>>
  /\ result = Str(<<"I", "D">>)

\* C3: a host that is neither youtu.be, nor youtube.com, nor a subdomain of
\* youtube.com yields None.
C3_OtherHostNotFound ==
  (Called /\ ParsedOk /\ Host # YOUTU_BE /\ ~OnYoutube) => result = None

\* C4 as stated: on youtube.com with path /watch the result is the value of
\* the first field named v, and None when no field is named v.
C4_FirstOccurrence ==
  (Called /\ ParsedOk /\ OnYoutube /\ Parsed.path = WATCH) =>
     result = IF VFieldsAt = {} THEN None
              ELSE Str(FieldValue(QueryFields[Least(VFieldsAt)]))

\* C4 amended: on youtube.com with path /watch the result is the decoded
\* value of the first field named v that has a non-empty value, and None
\* when there is no such field; other fields are ignored.
C4_FirstNonBlank ==
  (Called /\ ParsedOk /\ OnYoutube /\ Parsed.path = WATCH) =>
     result = IF VValuesAt = {} THEN None
              ELSE Str(FieldValue(QueryFields[Least(VValuesAt)]))

C4_Witness ==
  /\ Called /\ ParsedOk /\ OnYoutube /\ Parsed.path = WATCH
  /\ Cardinality(VValuesAt) >= 2
  /\ Len(QueryFields) > Cardinality(VFieldsAt)
  /\ result = Str(<<"A">>)
  /\ FieldValue(QueryFields[Len(QueryFields) - 1]) = <<"B">>

\* C5: on youtube.com with a path under /embed/, /shorts/ or /live/ the
\* result is the text between that prefix and the next '/' or the end of the
\* path; no call on youtube.com ends in an index fault, and a path of fewer
\* than three segments, other than /watch, yields None.
C5_ThirdSegment ==
  /\ (Called /\ ParsedOk /\ OnYoutube /\ UnderSegment) =>
        /\ result.kind = "str"
        /\ ~contains(result.val, "/")
        /\ \E k \in 1..Len(SEGS) :
              /\ startswith(Parsed.path, SEGS[k] \o result.val)
              /\ LET rest == From(Parsed.path, Len(SEGS[k]) + Len(result.val) + 1)
                 IN rest = <<>> \/ rest[1] = "/"
  /\ (Called /\ ParsedOk /\ OnYoutube) =>
        /\ result.kind # "IndexError"
        /\ (Parsed.path # WATCH /\ Len(split(Parsed.path, "/")) < 3 => result = None)

C5_Witness ==
  /\ Called /\ ParsedOk /\ OnYoutube
  /\ Parsed.path = <<"/","e","m","b","e","d","/","I","D","/","x">>
  /\ result = Str(<<"I", "D">>)

\* the call matched no rule: the host is not youtu.be, and it does not end
\* with youtube.com or the path is neither /watch nor under a segment prefix
NoRuleMatched ==
  /\ ParsedOk
  /\ Host # YOUTU_BE
  /\ ~(endswith(Host, YOUTUBE_COM) /\ (Parsed.path = WATCH \/ UnderSegment))

\* C6 as stated: a youtu.be URL with path '/' or '' gives the empty string,
\* and None is returned only when no rule matched or no field is named v.
C6_NoneOnlyWhenAbsent ==
  /\ (Called /\ ParsedOk /\ Host = YOUTU_BE /\ Parsed.path \in {<<>>, <<"/">>}) =>
        result = Str(<<>>)
  /\ (Called /\ result = None) => (NoRuleMatched \/ VFieldsAt = {})

\* C6 amended: a youtu.be URL with path '/' or '' gives the empty string,
\* and None is returned only when no rule matched or no field named v has a
\* non-empty value.
C6_NoneOnlyWhenAbsentOrBlank ==
  /\ (Called /\ ParsedOk /\ Host = YOUTU_BE /\ Parsed.path \in {<<>>, <<"/">>}) =>
        (result = Str(<<>>) /\ result # None)
  /\ (Called /\ result = None) => (NoRuleMatched \/ VValuesAt = {})

C6_Witness ==
  /\ Called /\ ParsedOk /\ Host = YOUTU_BE /\ Parsed.path = <<"/">>
  /\ result = Str(<<>>)

\* C10: on youtube.com a path that is neither /watch nor under /embed/,
\* /shorts/ or /live/ yields None, whatever the query string holds.
C10_OtherPathNotFound ==
  (Called /\ ParsedOk /\ OnYoutube /\ Parsed.path # WATCH /\ ~UnderSegment) =>
     result = None

C10_Witness ==
  /\ Called /\ ParsedOk /\ OnYoutube
  /\ Parsed.path = <<"/","w","a","t","c","h","/">>
  /\ VValuesAt # {}
  /\ result = None

\* ------------------------------------------------------------------------
\* Properties of the script (specification Spec)
\* ------------------------------------------------------------------------
\* C8: an agent runs only in an execution in which extract_video_id returned
\* a non-empty identifier for the entered URL; an empty input renders
\* nothing below the text input, and a result of None or '' renders the
\* invalid-URL error and neither the tabs nor any agent call.
C8_AgentsGated ==
  /\ agent_calls # <<>> =>
        /\ video_url # <<>>
        /\ extract_video_id(video_url).kind = "str"
        /\ extract_video_id(video_url).val # <<>>
  /\ (API_KEY /\ video_url = <<>>) => (shown = {"text_input"} /\ agent_calls = <<>>)
  /\ (video_url # <<>> /\ extract_video_id(video_url) \in {None, Str(<<>>)}) =>
        /\ "error_invalid" \in shown
        /\ "tabs" \notin shown
        /\ shown \cap Buttons = {}
        /\ agent_calls = <<>>

C8_Witness ==
  /\ pressed # "none"
  /\ video_url # <<>>
  /\ extract_video_id(video_url) = Str(<<>>)
  /\ "error_invalid" \in shown
  /\ agent_calls = <<>>

\* C9: the prompt of every agent call is the prompt text followed by the
\* URL exactly as entered, not by the extracted identifier.
C9_PromptHoldsUrl ==
  \A i \in 1..Len(agent_calls) :
     /\ Len(agent_calls[i].prompt) = 1 + Len(video_url)
     /\ agent_calls[i].prompt[1] = prompt_text(agent_calls[i].agent)
     /\ Tail(agent_calls[i].prompt) = video_url
     /\ Tail(agent_calls[i].prompt) # video_id.val

C9_Witness ==
  /\ Len(agent_calls) = 1
  /\ agent_calls[1].agent = "notes_agent"
  /\ video_id = Str(<<"A">>)
  /\ Tail(agent_calls[1].prompt) = video_url

====
